---- MODULE Spec2Model ----
(***************************************************************************)
(* stringify: localized strings between Android/iOS resource files and a   *)
(* spreadsheet (src/stringify.py).                                         *)
(*                                                                         *)
(* Python strings are TLA+ strings (Len, SubSeq and \o act on them).       *)
(* Python's None object is the token None below, which is outside every    *)
(* set of texts the model draws its inputs from.                           *)
(***************************************************************************)
EXTENDS Integers, Sequences, FiniteSets, TLC

VARIABLES
    pc,          \* position of the running entry point
    args,        \* the parsed command line (argparse namespace)
    settings,    \* the process-wide settings dict
    files,       \* what find_files discovers: <<[path, entries], ...>>
    dictionary,  \* the Dictionary object: [dictionary, languages]
    sheet,       \* first worksheet of the document: rows of cells
    languages,   \* handle_export: result of load_languages
    strings,     \* handle_export: result of read_strings
    updates,     \* write: the update_cell calls made, <<[row, col, value], ...>>
    saved,       \* calls of save_file so far: <<[dir, name, content], ...>>
    ran,         \* the flows the run has entered, in order
    raised,      \* the exception that ended the run ("" when none)
    call,        \* the last Dictionary call and its arguments
    ret          \* what the last Dictionary call returned or raised

vars == <<pc, args, settings, files, dictionary, sheet, languages, strings,
          updates, saved, ran, raised, call, ret>>

None == "<None>"

-----------------------------------------------------------------------------
(* Bounds and input alphabets *)

MaxKeys == 2
MaxFiles == 2
MaxRows == 3

KeyNames == <<"a", "b", "c", "d", "e">>
Keys == {KeyNames[i] : i \in 1..MaxKeys}
Langs == {"en", "fr"}
Words == {"x", ""}
\* child.text of an Android element without text is None
Values == Words \cup {None}

-----------------------------------------------------------------------------
(* Python str helpers *)

Char(s, i) == SubSeq(s, i, i)

Max(S) == CHOOSE m \in S : \A n \in S : n <= m

\* the characters of the model's texts in code point order (what < on str
\* and sorted() compare by)
CodePoints == "\t\n\r \"-./0123456789;<=>ABCDEFGHIJKLMNOPQRSTUVWXYZ_abcdefghijklmnopqrstuvwxyz"

Rank(c) == CHOOSE i \in 1..Len(CodePoints) : Char(CodePoints, i) = c

UpperCase == "ABCDEFGHIJKLMNOPQRSTUVWXYZ"
LowerCase == "abcdefghijklmnopqrstuvwxyz"

LowerChar(c) ==
    IF \E i \in 1..26 : Char(UpperCase, i) = c
    THEN Char(LowerCase, CHOOSE i \in 1..26 : Char(UpperCase, i) = c)
    ELSE c

\* str.lower()
RECURSIVE Lower(_)
Lower(s) ==
    IF Len(s) = 0 THEN ""
    ELSE LowerChar(Char(s, 1)) \o Lower(SubSeq(s, 2, Len(s)))

IsSpace(c) == c \in {" ", "\t", "\n", "\r"}

RECURSIVE LStrip(_)
LStrip(s) ==
    IF Len(s) > 0 /\ IsSpace(Char(s, 1)) THEN LStrip(SubSeq(s, 2, Len(s))) ELSE s

RECURSIVE RStrip(_)
RStrip(s) ==
    IF Len(s) > 0 /\ IsSpace(Char(s, Len(s))) THEN RStrip(SubSeq(s, 1, Len(s) - 1)) ELSE s

\* str.strip()
Strip(s) == RStrip(LStrip(s))

\* s[-2:]
LastTwo(s) == IF Len(s) <= 2 THEN s ELSE SubSeq(s, Len(s) - 1, Len(s))

\* str.startswith(prefix)
StartsWith(s, prefix) ==
    Len(prefix) <= Len(s) /\ SubSeq(s, 1, Len(prefix)) = prefix

\* a < b on str
RECURSIVE StrLess(_, _)
StrLess(a, b) ==
    IF Len(b) = 0 THEN FALSE
    ELSE IF Len(a) = 0 THEN TRUE
    ELSE IF Char(a, 1) = Char(b, 1)
         THEN StrLess(SubSeq(a, 2, Len(a)), SubSeq(b, 2, Len(b)))
         ELSE Rank(Char(a, 1)) < Rank(Char(b, 1))

\* sorted(S) of a set of str
RECURSIVE Sorted(_)
Sorted(S) ==
    IF S = {} THEN <<>>
    ELSE LET least == CHOOSE x \in S : \A y \in S \ {x} : StrLess(x, y)
         IN  <<least>> \o Sorted(S \ {least})

\* the positions at which the text w occurs in s
Occurrences(s, w) ==
    {i \in 1..(Len(s) - Len(w) + 1) : SubSeq(s, i, i + Len(w) - 1) = w}

\* os.path.basename of a path with "/" separators
BaseName(path) ==
    LET slashes == Occurrences(path, "/")
    IN  IF slashes = {} THEN path ELSE SubSeq(path, Max(slashes) + 1, Len(path))

-----------------------------------------------------------------------------
(* Python dict helpers *)

EmptyDict == [k \in {} |-> ""]

Put(m, k, v) == [x \in (DOMAIN m) \cup {k} |-> IF x = k THEN v ELSE m[x]]

-----------------------------------------------------------------------------
(* class TranslationRow *)

TranslationRow(key) == [key |-> key, translations |-> EmptyDict]

RowAddTranslation(row, lang, value) ==
    [row EXCEPT !.translations = Put(@, lang, value)]

RowGetTranslation(row, lang) ==
    IF lang \in DOMAIN row.translations THEN row.translations[lang] ELSE None

-----------------------------------------------------------------------------
(* class Dictionary: self.dictionary is an insertion-ordered dict key -> row,
   modelled as the sequence of its rows; self.languages is a set. *)

NewDictionary == [dictionary |-> <<>>, languages |-> {}]

HasKey(d, key) == \E i \in 1..Len(d.dictionary) : d.dictionary[i].key = key

IndexOf(d, key) == CHOOSE i \in 1..Len(d.dictionary) : d.dictionary[i].key = key

DictKeys(d) == [i \in 1..Len(d.dictionary) |-> d.dictionary[i].key]

\* faulty variant: the language is stored in the row but not registered in the set
AddTranslationNoRegister(d, key, lang, word) ==
    LET rows == IF HasKey(d, key) THEN d.dictionary
                ELSE Append(d.dictionary, TranslationRow(key))
        i == CHOOSE j \in 1..Len(rows) : rows[j].key = key
    IN  [dictionary |-> [rows EXCEPT ![i] = RowAddTranslation(@, lang, word)],
         languages |-> d.languages]

\* faulty variant: a fresh row replaces the existing one on every insertion
AddTranslationFreshRow(d, key, lang, word) ==
    LET fresh == RowAddTranslation(TranslationRow(key), lang, word)
    IN  [dictionary |-> IF HasKey(d, key)
                        THEN [d.dictionary EXCEPT ![IndexOf(d, key)] = fresh]
                        ELSE Append(d.dictionary, fresh),
         languages |-> d.languages \cup {lang}]

AddTranslation(d, key, lang, word) ==
    LET rows == IF HasKey(d, key) THEN d.dictionary
                ELSE Append(d.dictionary, TranslationRow(key))
        i == CHOOSE j \in 1..Len(rows) : rows[j].key = key
    IN  [dictionary |-> [rows EXCEPT ![i] = RowAddTranslation(@, lang, word)],
         languages |-> d.languages \cup {lang}]

\* self.dictionary.get(key) is None for an unknown key, and None has no
\* get_translation attribute
GetTranslation(d, key, lang) ==
    IF HasKey(d, key)
    THEN [raised |-> "", value |-> RowGetTranslation(d.dictionary[IndexOf(d, key)], lang)]
    ELSE [raised |-> "AttributeError", value |-> None]

-----------------------------------------------------------------------------
(* The file system as the loaders see it *)

FileSystem ==
    { "/res/values/strings.xml",
      "/res/values-fr/strings.xml",
      "/res/values-fr-rCA/strings.xml",
      "/res/layout/strings.xml",
      "/res/values-fr/values.xml",
      "/Proj/fr.lproj/Localizable.strings",
      "/Proj/zh-Hans.lproj/Localizable.strings",
      "/Proj/Localizable.strings" }

\* the (key, value) entries the file at a path holds: the children of the
\* XML root with their name attribute and text, or the lines of a .strings
\* file that match "(.*)".*=.*"(.*)";
FileEntries(path) ==
    CASE path = "/res/values/strings.xml" -> << <<"a", "x">>, <<"b", "">> >>
      [] path = "/res/values-fr/strings.xml" -> << <<"a", "y">> >>
      [] path = "/res/values-fr-rCA/strings.xml" -> << <<"b", None>>, <<"a", "z">> >>
      [] path = "/res/layout/strings.xml" -> << <<"c", "w">> >>
      [] path = "/res/values-fr/values.xml" -> << <<"c", "v">> >>
      [] path = "/Proj/fr.lproj/Localizable.strings" -> << <<"a", "y">>, <<"b", "">> >>
      [] path = "/Proj/zh-Hans.lproj/Localizable.strings" -> << <<"a", "h">> >>
      [] path = "/Proj/Localizable.strings" -> << <<"c", "w">> >>
      [] OTHER -> <<>>

\* find_files: the regular files under the root, in listing order, whose name
\* starts with filename_regex (every file when filename_regex is None)
FindFiles(listing, filename_regex) ==
    SelectSeq(listing,
              LAMBDA path :
                  IF filename_regex # None /\ filename_regex # ""
                     /\ StartsWith(BaseName(path), filename_regex)
                  THEN TRUE
                  ELSE filename_regex = None)

-----------------------------------------------------------------------------
(* Loaders *)

Ok(value) == [raised |-> "", value |-> value]
Raise(exception) == [raised |-> exception, value |-> None]

LowerOrDash ==
    {"-"} \cup {Char(LowerCase, i) : i \in 1..26}

\* group 1 of re.match(r'.*values([-a-z]{0,3})', filepath): the greedy .*
\* stops at the last "values" of the path, the group takes up to 3 characters
MatchAndroid(filepath) ==
    LET occ == Occurrences(filepath, "values")
    IN  IF occ = {} THEN Raise("NoMatch")
        ELSE LET start == Max(occ) + 6
                 n == Max({k \in 0..3 :
                             \A j \in 1..k :
                                 /\ start + j - 1 <= Len(filepath)
                                 /\ Char(filepath, start + j - 1) \in LowerOrDash})
             IN  Ok(SubSeq(filepath, start, start + n - 1))

\* AndroidStringsLoader._decode_filepath_language: postfix is bound only
\* when the pattern matches
AndroidDecodeFilepathLanguage(filepath) ==
    LET match == MatchAndroid(filepath)
    IN  IF match.raised = ""
        THEN Ok(IF Len(match.value) = 3 THEN LastTwo(match.value) ELSE match.value)
        ELSE Raise("UnboundLocalError")

\* group 1 of re.match(r"(.*)\.lproj", path)
MatchIOS(path) ==
    LET occ == Occurrences(path, ".lproj")
    IN  IF occ = {} THEN Raise("NoMatch")
        ELSE Ok(SubSeq(path, 1, Max(occ) - 1))

\* IOSStringsLoader._decode_filepath_language
IOSDecodeFilepathLanguage(path) ==
    LET match == MatchIOS(path)
    IN  IF match.raised = ""
        THEN Ok(IF Len(match.value) > 2 THEN LastTwo(match.value) ELSE match.value)
        ELSE Raise("NotFoundException")

\* for entry in entries: dictionary.add_translation(entry[0], language, entry[1])
RECURSIVE AddEntries(_, _, _)
AddEntries(d, entries, language) ==
    IF entries = <<>> THEN d
    ELSE AddEntries(AddTranslation(d, Head(entries)[1], language, Head(entries)[2]),
                    Tail(entries), language)

\* the loop of AndroidStringsLoader.execute over file_paths
RECURSIVE AndroidLoop(_, _, _)
AndroidLoop(file_paths, d, default_language) ==
    IF file_paths = <<>> THEN Ok(d)
    ELSE LET decoded == AndroidDecodeFilepathLanguage(Head(file_paths))
         IN  IF decoded.raised # "" THEN Raise(decoded.raised)
             ELSE LET language == IF Len(Strip(decoded.value)) = 0
                                  THEN default_language
                                  ELSE decoded.value
                  IN  AndroidLoop(Tail(file_paths),
                                  AddEntries(d, FileEntries(Head(file_paths)), language),
                                  default_language)

\* AndroidStringsLoader(path, xml_name, default_language).execute()
AndroidExecute(listing, xml_name, default_language) ==
    AndroidLoop(FindFiles(listing, xml_name), NewDictionary, default_language)

\* the loop of IOSStringsLoader.execute over filepaths
RECURSIVE IOSLoop(_, _)
IOSLoop(filepaths, d) ==
    IF filepaths = <<>> THEN Ok(d)
    ELSE LET decoded == IOSDecodeFilepathLanguage(Head(filepaths))
         IN  IF decoded.raised # "" THEN Raise(decoded.raised)
             ELSE IOSLoop(Tail(filepaths),
                          AddEntries(d, FileEntries(Head(filepaths)), decoded.value))

\* IOSStringsLoader(path, filename).execute()
IOSExecute(listing, filename) ==
    IOSLoop(FindFiles(listing, filename), NewDictionary)

-----------------------------------------------------------------------------
(* The worksheet: a map from <<row, column>> to the text of the cell; a cell
   outside the map is empty. *)

EmptySheet == [cell \in {} |-> ""]

\* sheet.cell(row, column).value
CellValue(s, row, column) ==
    IF <<row, column>> \in DOMAIN s THEN s[<<row, column>>] ELSE ""

SetCell(s, row, column, text) ==
    IF text = ""
    THEN [cell \in (DOMAIN s) \ {<<row, column>>} |-> s[cell]]
    ELSE Put(s, <<row, column>>, text)

\* faulty variant: the old cells are kept
KeepWorksheet(s) == s

\* GoogleDocsHandler._clear_worksheet: every cell whose text matches ".+"
\* is set to ""
ClearWorksheet(s) ==
    [cell \in {c \in DOMAIN s : Len(s[c]) = 0} |-> s[cell]]

\* What the spreadsheet shows in a cell that update_cell was handed None for:
\* nothing (the value is left out of the request) or the text of str(None),
\* by the version of the client library.
NoneShownAs == {"", "None"}

UpdateCall(row, column, value) == [row |-> row, col |-> column, value |-> value]

\* the update_cell calls of one key's row
RowCalls(d, langs, row) ==
    LET key == d.dictionary[row - 1].key
    IN  <<UpdateCall(row, 1, key)>> \o
        [i \in 1..Len(langs) |->
            UpdateCall(row, i + 1, GetTranslation(d, key, langs[i]).value)]

RECURSIVE RowsCalls(_, _, _)
RowsCalls(d, langs, row) ==
    IF row - 1 > Len(d.dictionary) THEN <<>>
    ELSE RowCalls(d, langs, row) \o RowsCalls(d, langs, row + 1)

\* GoogleDocsHandler.write, lines 127-143: the header row of the sorted
\* languages from column 2, then one row per key from row 2
WriteCalls(d) ==
    LET langs == Sorted(d.languages)
    IN  [i \in 1..Len(langs) |-> UpdateCall(1, i + 1, langs[i])]
        \o RowsCalls(d, langs, 2)

RECURSIVE ApplyUpdates(_, _, _)
ApplyUpdates(s, calls, shown) ==
    IF calls = <<>> THEN s
    ELSE LET c == Head(calls)
         IN  ApplyUpdates(SetCell(s, c.row, c.col,
                                  IF c.value = None THEN shown ELSE c.value),
                          Tail(calls), shown)

\* GoogleDocsHandler.write: the sheet after the clear and the updates
WrittenSheet(s, d, shown) == ApplyUpdates(ClearWorksheet(s), WriteCalls(d), shown)

\* a first sheet that already holds an older export
StaleSheet ==
    (<<1, 2>> :> "de") @@ (<<2, 1>> :> "old") @@ (<<2, 2>> :> "alt")
    @@ (<<4, 1>> :> "older") @@ (<<4, 3>> :> "alt")

-----------------------------------------------------------------------------
(* Reading the worksheet *)

\* the last row that holds a cell
LastRow(s) == Max({0} \cup {cell[1] : cell \in DOMAIN s})

\* load_languages: the header cells from column 2 up to the first blank one
RECURSIVE LoadLanguagesFrom(_, _, _)
LoadLanguagesFrom(s, column, langs) ==
    LET lang_code == CellValue(s, 1, column)
    IN  IF Len(Strip(lang_code)) > 0
        THEN LoadLanguagesFrom(s, column + 1, Append(langs, lang_code))
        ELSE langs

LoadLanguages(s) == LoadLanguagesFrom(s, 2, <<>>)

\* read_row: no cells when the first cell is blank (the test is made on
\* column 1 only, before anything is appended), else langs_count + 1 cells
ReadRow(s, row, langs_count) ==
    IF Len(Strip(CellValue(s, row, 1))) = 0 THEN <<>>
    ELSE [column \in 1..(langs_count + 1) |-> CellValue(s, row, column)]

\* faulty variant: the first blank row ends the read
RECURSIVE ReadStringsStopAtFirstBlank(_, _, _, _, _)
ReadStringsStopAtFirstBlank(s, row, rows, empty_row, langs_count) ==
    LET row_data == ReadRow(s, row, langs_count)
    IN  IF Len(row_data) = 0 THEN rows
        ELSE ReadStringsStopAtFirstBlank(s, row + 1, Append(rows, row_data),
                                         FALSE, langs_count)

\* the loop of read_strings: the row is appended whether or not it is empty
RECURSIVE ReadStringsFrom(_, _, _, _, _)
ReadStringsFrom(s, row, rows, empty_row, langs_count) ==
    LET row_data == ReadRow(s, row, langs_count)
    IN  IF Len(row_data) = 0 /\ empty_row THEN rows
        ELSE ReadStringsFrom(s, row + 1, Append(rows, row_data),
                             Len(row_data) = 0, langs_count)

\* faulty variant of read_strings
ReadStringsFirstBlankEnds(s, langs_count) ==
    ReadStringsStopAtFirstBlank(s, 2, <<>>, FALSE, langs_count)

\* read_strings
ReadStrings(s, langs_count) == ReadStringsFrom(s, 2, <<>>, FALSE, langs_count)

-----------------------------------------------------------------------------
(* Writers *)

\* the rows a writer emits an entry for
RECURSIVE NonEmptyRows(_)
NonEmptyRows(rows) ==
    IF rows = <<>> THEN <<>>
    ELSE IF Len(Head(rows)) = 0 THEN NonEmptyRows(Tail(rows))
    ELSE <<Head(rows)>> \o NonEmptyRows(Tail(rows))

\* faulty variant: the value is taken from column i, the key column for i = 1
AndroidElementsOffByOne(rows, i) ==
    LET kept == NonEmptyRows(rows)
    IN  [r \in 1..Len(kept) |-> [name |-> kept[r][1], text |-> kept[r][i]]]

\* export_android, lines 462-468: the <string> children of <resources>
AndroidElements(rows, i) ==
    LET kept == NonEmptyRows(rows)
    IN  [r \in 1..Len(kept) |-> [name |-> kept[r][1], text |-> kept[r][i + 1]]]

\* line 473
AndroidDirName(lang, default_language) ==
    IF default_language = lang THEN "values" ELSE "values-" \o lang

\* export_android: one save_file call per language
ExportAndroidCalls(langs, rows, default_language, xml_file_name) ==
    [i \in 1..Len(langs) |->
        [dir |-> AndroidDirName(langs[i], default_language),
         name |-> xml_file_name,
         content |-> AndroidElements(rows, i)]]

\* '"{}" = "{}";\n'.format(row[0], row[i + 1])
IOSLine(key, value) == "\"" \o key \o "\" = \"" \o value \o "\";\n"

\* export_ios, lines 491-495: the text of Localizable.strings
RECURSIVE IOSOutput(_, _)
IOSOutput(rows, i) ==
    IF rows = <<>> THEN ""
    ELSE IF Len(Head(rows)) = 0 THEN IOSOutput(Tail(rows), i)
    ELSE IOSLine(Head(rows)[1], Head(rows)[i + 1]) \o IOSOutput(Tail(rows), i)

\* line 497
IOSDirName(lang) == lang \o ".lproj"

\* export_ios: one save_file call per language
ExportIOSCalls(langs, rows) ==
    [i \in 1..Len(langs) |->
        [dir |-> IOSDirName(langs[i]),
         name |-> "Localizable.strings",
         content |-> IOSOutput(rows, i)]]

-----------------------------------------------------------------------------
(* Values of the variables a specification does not use *)

NoArgs == [mode |-> None, spreadsheet_name |-> None, default_lang |-> None,
           xml_filename |-> None, logs_off |-> None]
NoCall == [op |-> "", key |-> "", lang |-> "", word |-> ""]
NoRet == [raised |-> "", value |-> None]

-----------------------------------------------------------------------------
(* The Dictionary object driven directly by its callers *)

StoreInit ==
    /\ pc = "store"
    /\ args = NoArgs
    /\ settings = EmptyDict
    /\ files = <<>>
    /\ dictionary = NewDictionary
    /\ sheet = <<>>
    /\ languages = <<>>
    /\ strings = <<>>
    /\ updates = <<>>
    /\ saved = <<>>
    /\ ran = <<>>
    /\ raised = ""
    /\ call = NoCall
    /\ ret = NoRet

DictAdd(key, lang, word) ==
    /\ pc = "store"
    /\ dictionary' = AddTranslation(dictionary, key, lang, word)
    /\ call' = [op |-> "add", key |-> key, lang |-> lang, word |-> word]
    /\ ret' = NoRet
    /\ UNCHANGED <<pc, args, settings, files, sheet, languages, strings,
                   updates, saved, ran, raised>>

DictGet(key, lang) ==
    /\ pc = "store"
    /\ ret' = GetTranslation(dictionary, key, lang)
    /\ call' = [op |-> "get", key |-> key, lang |-> lang, word |-> ""]
    /\ UNCHANGED <<pc, args, settings, files, dictionary, sheet, languages,
                   strings, updates, saved, ran, raised>>

StoreNext ==
    \/ \E key \in Keys, lang \in Langs, word \in Words : DictAdd(key, lang, word)
    \/ \E key \in Keys, lang \in Langs : DictGet(key, lang)

SpecStore == StoreInit /\ [][StoreNext]_vars

-----------------------------------------------------------------------------
(* main(): the command line run *)

Truthy(v) == v # None /\ v # ""

ArgModes == {None, "export_all", "export_android", "export_ios",
             "import_android", "import_ios", "Export_iOS"}

Listings ==
    UNION {{l \in [1..n -> FileSystem] : \A i, j \in 1..n : l[i] = l[j] => i = j}
           : n \in 0..MaxFiles}

MainInit ==
    /\ pc = "main"
    /\ args \in [mode : ArgModes,
                 spreadsheet_name : {None, "doc"},
                 default_lang : {None, "de"},
                 xml_filename : {None, "values", "Localizable.strings"},
                 logs_off : {None, "1"}]
    /\ settings = EmptyDict
    /\ files \in Listings
    /\ dictionary = NewDictionary
    /\ sheet = StaleSheet
    /\ languages = <<>>
    /\ strings = <<>>
    /\ updates = <<>>
    /\ saved = <<>>
    /\ ran = <<>>
    /\ raised = ""
    /\ call = NoCall
    /\ ret = NoRet

\* lines 321-326
DefaultSettings ==
    [k \in {"default_language", "mode", "xml_name", "logs_on", "locale",
            "credentials_location"} |->
        CASE k = "default_language" -> "en"
          [] k = "mode" -> "export_all"
          [] k = "xml_name" -> "strings.xml"
          [] k = "logs_on" -> "True"
          [] k = "locale" -> "."
          [] k = "credentials_location" -> ".credentials"]

\* lines 345-360, for a command line that names the spreadsheet
DecodedSettings(a) ==
    LET s1 == IF Truthy(a.mode) THEN Put(DefaultSettings, "mode", Lower(a.mode))
              ELSE DefaultSettings
        s2 == Put(s1, "spreadsheet_name", a.spreadsheet_name)
        s3 == IF Truthy(a.default_lang) THEN Put(s2, "default_language", a.default_lang)
              ELSE s2
    IN  IF Truthy(a.xml_filename) THEN Put(s3, "xml_name", a.xml_filename) ELSE s3

\* decode_sys_args, then log_version
DecodeSysArgs ==
    /\ pc = "main"
    /\ \/ /\ ~Truthy(args.spreadsheet_name)
          \* log_exception(..., force_quit=True): sys.exit()
          /\ settings' = IF Truthy(args.mode)
                         THEN Put(DefaultSettings, "mode", Lower(args.mode))
                         ELSE DefaultSettings
          /\ raised' = "SystemExit"
          /\ pc' = "exited"
       \/ /\ Truthy(args.spreadsheet_name)
          /\ Truthy(args.logs_off)
          \* settings.update({SETTINGS_KEY_LOGS_ON, False}): the argument is a
          \* set; update fails on its first element, the str or the bool
          /\ settings' = DecodedSettings(args)
          /\ raised' \in {"ValueError", "TypeError"}
          /\ pc' = "exited"
       \/ /\ Truthy(args.spreadsheet_name)
          /\ ~Truthy(args.logs_off)
          /\ settings' = DecodedSettings(args)
          /\ raised' = ""
          /\ pc' = "dispatch"
    /\ UNCHANGED <<args, files, dictionary, sheet, languages, strings, updates,
                   saved, ran, call, ret>>

\* line 531: AndroidProducer() lacks the parser argument of __init__
MainImportAndroid ==
    /\ pc = "dispatch"
    /\ settings["mode"] = "import_android"
    /\ raised' = "TypeError"
    /\ pc' = "crashed"
    /\ UNCHANGED <<args, settings, files, dictionary, sheet, languages, strings,
                   updates, saved, ran, call, ret>>

\* line 533: SwiftProducer() lacks the parser argument of __init__
MainImportIOS ==
    /\ pc = "dispatch"
    /\ settings["mode"] = "import_ios"
    /\ raised' = "TypeError"
    /\ pc' = "crashed"
    /\ UNCHANGED <<args, settings, files, dictionary, sheet, languages, strings,
                   updates, saved, ran, call, ret>>

\* lines 534-545: the loader of the mode and loader.load()
MainLoad ==
    /\ pc = "dispatch"
    /\ settings["mode"] \in {"export_ios", "export_android"}
    /\ LET loaded == IF settings["mode"] = "export_android"
                     THEN AndroidExecute(files, settings["xml_name"],
                                         settings["default_language"])
                     ELSE IOSExecute(files, settings["xml_name"])
       IN  /\ ran' = Append(ran, IF settings["mode"] = "export_android"
                                 THEN "AndroidStringsLoader"
                                 ELSE "IOSStringsLoader")
           /\ raised' = loaded.raised
           /\ IF loaded.raised = ""
              THEN dictionary' = loaded.value /\ pc' = "loaded"
              ELSE dictionary' = dictionary /\ pc' = "crashed"
    /\ UNCHANGED <<args, settings, files, sheet, languages, strings, updates,
                   saved, call, ret>>

\* line 546: google_docs_handler.write(google_doc_name, dictionary)
MainWrite ==
    /\ pc = "loaded"
    /\ \E shown \in NoneShownAs :
          sheet' = WrittenSheet(sheet, dictionary, shown)
    /\ updates' = WriteCalls(dictionary)
    /\ ran' = Append(ran, "GoogleDocsHandler.write")
    /\ pc' = "written"
    /\ UNCHANGED <<args, settings, files, dictionary, languages, strings, saved,
                   raised, call, ret>>

\* line 547: log_step("Done")
MainDone ==
    /\ \/ pc = "written"
       \/ /\ pc = "dispatch"
          /\ settings["mode"] \notin {"import_android", "import_ios",
                                      "export_ios", "export_android"}
    /\ pc' = "done"
    /\ UNCHANGED <<args, settings, files, dictionary, sheet, languages, strings,
                   updates, saved, ran, raised, call, ret>>

MainNext ==
    \/ DecodeSysArgs
    \/ MainImportAndroid
    \/ MainImportIOS
    \/ MainLoad
    \/ MainWrite
    \/ MainDone

Spec == MainInit /\ [][MainNext]_vars

-----------------------------------------------------------------------------
(* handle_export(mode, gdoc_name) on the first sheet of the opened document *)

HeaderCells == {"", "en", "fr"}
KeyCells(row) == {"", " ", KeyNames[row - 1]}

\* the non-empty cells of one row, from the texts of its three columns
RowCells(row, texts) ==
    [cell \in {<<row, column>> : column \in {c \in 1..3 : texts[c] # ""}} |->
        texts[cell[2]]]

HeaderRows ==
    {RowCells(1, <<"", h2, h3>>) : h2 \in HeaderCells, h3 \in HeaderCells}

DataRows(row) ==
    {RowCells(row, <<key, v2, "y">>) : key \in KeyCells(row), v2 \in {"", "x"}}

\* the sheets of n data rows under a header of two language columns
RECURSIVE SheetsOf(_)
SheetsOf(n) ==
    IF n = 0 THEN HeaderRows
    ELSE {s @@ r : s \in SheetsOf(n - 1), r \in DataRows(n + 1)}

Sheets == SheetsOf(MaxRows)

ExportInit ==
    /\ pc = "handle_export"
    /\ args = NoArgs
    /\ settings \in {Put(DefaultSettings, "mode", mode) :
                        mode \in {"export_android", "export_ios", "export_all"}}
    /\ files = <<>>
    /\ dictionary = NewDictionary
    /\ sheet \in Sheets
    /\ languages = <<>>
    /\ strings = <<>>
    /\ updates = <<>>
    /\ saved = <<>>
    /\ ran = <<>>
    /\ raised = ""
    /\ call = NoCall
    /\ ret = NoRet

\* line 507
ExportLoadLanguages ==
    /\ pc = "handle_export"
    /\ languages' = LoadLanguages(sheet)
    /\ ran' = Append(ran, "load_languages")
    /\ pc' = "languages"
    /\ UNCHANGED <<args, settings, files, dictionary, sheet, strings, updates,
                   saved, raised, call, ret>>

\* line 508
ExportReadStrings ==
    /\ pc = "languages"
    /\ strings' = ReadStrings(sheet, Len(languages))
    /\ ran' = Append(ran, "read_strings")
    /\ pc' = "strings"
    /\ UNCHANGED <<args, settings, files, dictionary, sheet, languages, updates,
                   saved, raised, call, ret>>

\* lines 510-515
ExportAndroid ==
    /\ pc = "strings"
    /\ IF settings["mode"] \in {"export_android", "export_all"}
       THEN /\ saved' = saved \o ExportAndroidCalls(languages, strings,
                                                    settings["default_language"],
                                                    settings["xml_name"])
            /\ ran' = Append(ran, "export_android")
       ELSE UNCHANGED <<saved, ran>>
    /\ pc' = "android"
    /\ UNCHANGED <<args, settings, files, dictionary, sheet, languages, strings,
                   updates, raised, call, ret>>

\* lines 517-518
ExportIOS ==
    /\ pc = "android"
    /\ IF settings["mode"] \in {"export_ios", "export_all"}
       THEN /\ saved' = saved \o ExportIOSCalls(languages, strings)
            /\ ran' = Append(ran, "export_ios")
       ELSE UNCHANGED <<saved, ran>>
    /\ pc' = "exported"
    /\ UNCHANGED <<args, settings, files, dictionary, sheet, languages, strings,
                   updates, raised, call, ret>>

ExportNext ==
    \/ ExportLoadLanguages
    \/ ExportReadStrings
    \/ ExportAndroid
    \/ ExportIOS

SpecExport == ExportInit /\ [][ExportNext]_vars

-----------------------------------------------------------------------------
(* A Dictionary written to the sheet and the sheet read back *)

RoundKeys == {"a", "b", " "}

RoundInit ==
    /\ pc = "build"
    /\ args = NoArgs
    /\ settings = DefaultSettings
    /\ files = <<>>
    /\ dictionary = NewDictionary
    /\ sheet = StaleSheet
    /\ languages = <<>>
    /\ strings = <<>>
    /\ updates = <<>>
    /\ saved = <<>>
    /\ ran = <<>>
    /\ raised = ""
    /\ call = NoCall
    /\ ret = NoRet

RoundAdd(key, lang, word) ==
    /\ pc = "build"
    /\ dictionary' = AddTranslation(dictionary, key, lang, word)
    /\ UNCHANGED <<pc, args, settings, files, sheet, languages, strings, updates,
                   saved, ran, raised, call, ret>>

\* GoogleDocsHandler.write(google_doc_name, dictionary)
RoundWrite ==
    /\ pc = "build"
    /\ \E shown \in NoneShownAs :
          sheet' = WrittenSheet(sheet, dictionary, shown)
    /\ updates' = WriteCalls(dictionary)
    /\ ran' = Append(ran, "GoogleDocsHandler.write")
    /\ pc' = "written"
    /\ UNCHANGED <<args, settings, files, dictionary, languages, strings, saved,
                   raised, call, ret>>

\* lines 507-508: load_languages, then read_strings
RoundRead ==
    /\ pc = "written"
    /\ languages' = LoadLanguages(sheet)
    /\ strings' = ReadStrings(sheet, Len(LoadLanguages(sheet)))
    /\ ran' = ran \o <<"load_languages", "read_strings">>
    /\ pc' = "read"
    /\ UNCHANGED <<args, settings, files, dictionary, sheet, updates, saved,
                   raised, call, ret>>

RoundNext ==
    \/ \E key \in RoundKeys, lang \in Langs, word \in Values : RoundAdd(key, lang, word)
    \/ RoundWrite
    \/ RoundRead

SpecRound == RoundInit /\ [][RoundNext]_vars

-----------------------------------------------------------------------------
(* Claims about the Dictionary *)

RowLanguages(d) ==
    UNION {DOMAIN d.dictionary[i].translations : i \in 1..Len(d.dictionary)}

\* C2: the language set of the store is exactly the union of the language
\* codes that appear in the translation maps of its rows.
C2_LanguageSetIsUnionOfRows ==
    dictionary.languages = RowLanguages(dictionary)

C2_Witness ==
    /\ call.op = "add"
    /\ Len(dictionary.dictionary) = 2
    /\ dictionary.languages = {"en", "fr"}
    /\ DOMAIN dictionary.dictionary[1].translations = {"en"}
    /\ DOMAIN dictionary.dictionary[2].translations = {"fr"}

\* C3: an insertion of (k, l, v) makes the lookup of (k, l) return v, keeps the
\* key sequence (appending k only when it is new, so no key has two rows), and
\* leaves the lookup of every other (key, language) as it was.
C3_AddThenGet ==
    [][call'.op = "add" =>
        LET k == call'.key
            l == call'.lang
        IN  /\ GetTranslation(dictionary', k, l) = [raised |-> "", value |-> call'.word]
            /\ DictKeys(dictionary') =
                  IF HasKey(dictionary, k) THEN DictKeys(dictionary)
                  ELSE Append(DictKeys(dictionary), k)
            /\ \A i, j \in 1..Len(dictionary'.dictionary) :
                  dictionary'.dictionary[i].key = dictionary'.dictionary[j].key => i = j
            /\ \A k2 \in Keys, l2 \in Langs :
                  (k2 # k /\ HasKey(dictionary, k2)) \/ (k2 = k /\ l2 # l /\ HasKey(dictionary, k))
                  => GetTranslation(dictionary', k2, l2) = GetTranslation(dictionary, k2, l2)
            /\ \A k2 \in Keys : k2 # k => (HasKey(dictionary', k2) <=> HasKey(dictionary, k2))
    ]_vars

C3_Witness ==
    /\ call.op = "add"
    /\ Len(dictionary.dictionary) = 2
    /\ call.key = dictionary.dictionary[1].key
    /\ DOMAIN dictionary.dictionary[1].translations = {"en", "fr"}
    /\ dictionary.dictionary[1].translations[call.lang] = call.word

\* C4 (as claimed): a lookup of a key never inserted fails with KeyNotFound; a
\* lookup of an inserted key without an entry for the language returns the
\* missing indicator, which is not the empty string; a stored empty string
\* comes back as the empty string.
C4_GetTranslationOutcomes ==
    call.op = "get" =>
        /\ ~HasKey(dictionary, call.key) => ret.raised = "KeyNotFound"
        /\ HasKey(dictionary, call.key) =>
              LET row == dictionary.dictionary[IndexOf(dictionary, call.key)]
              IN  /\ ret.raised = ""
                  /\ call.lang \notin DOMAIN row.translations
                        => ret.value = None /\ ret.value # ""
                  /\ (call.lang \in DOMAIN row.translations /\ row.translations[call.lang] = "")
                        => ret.value = ""

-----------------------------------------------------------------------------
(* Claims about main() and the loaders *)

InSeq(x, seq) == \E i \in 1..Len(seq) : seq[i] = x

Count(x, seq) == Cardinality({i \in 1..Len(seq) : seq[i] = x})

FiveModes == {"export_android", "export_ios", "export_all",
              "import_android", "import_ios"}

Loaders == {"AndroidStringsLoader", "IOSStringsLoader"}
Readers == {"load_languages", "read_strings"}
Writers == {"export_android", "export_ios"}

RanOnly(flows) == \A i \in 1..Len(ran) : ran[i] \in flows

\* C1 (as claimed): when a run whose command line was decoded ends, it has run
\* the flow of its mode and no other: the Android writer for export_android,
\* the iOS writer for export_ios, both writers on a grid read once for
\* export_all, the matching loader and then the spreadsheet write for the
\* import modes; it has not ended without running anything or crashed before
\* its flow started.
C1_ModeSelectsFlow ==
    (pc \in {"done", "crashed"} /\ settings["mode"] \in FiveModes) =>
        LET mode == settings["mode"]
        IN  /\ ran # <<>>
            /\ mode = "export_android" =>
                  /\ InSeq("export_android", ran)
                  /\ RanOnly(Readers \cup {"export_android"})
            /\ mode = "export_ios" =>
                  /\ InSeq("export_ios", ran)
                  /\ RanOnly(Readers \cup {"export_ios"})
            /\ mode = "export_all" =>
                  /\ InSeq("export_android", ran)
                  /\ InSeq("export_ios", ran)
                  /\ Count("read_strings", ran) = 1
                  /\ RanOnly(Readers \cup Writers)
            /\ mode = "import_android" =>
                  /\ ran[1] = "AndroidStringsLoader"
                  /\ raised = "" => ran = <<"AndroidStringsLoader", "GoogleDocsHandler.write">>
            /\ mode = "import_ios" =>
                  /\ ran[1] = "IOSStringsLoader"
                  /\ raised = "" => ran = <<"IOSStringsLoader", "GoogleDocsHandler.write">>

\* the segments of a path between its "/" separators
RECURSIVE Segments(_)
Segments(path) ==
    LET slashes == Occurrences(path, "/")
    IN  IF slashes = {} THEN <<path>>
        ELSE LET first == CHOOSE i \in slashes : \A j \in slashes : i <= j
             IN  <<SubSeq(path, 1, first - 1)>>
                 \o Segments(SubSeq(path, first + 1, Len(path)))

\* the directory segments of a path: all but the file name
Directories(path) == SubSeq(Segments(path), 1, Len(Segments(path)) - 1)

IsValuesSegment(seg) == seg = "values" \/ StartsWith(seg, "values-")

HasValuesSegment(path) ==
    \E i \in 1..Len(Directories(path)) : IsValuesSegment(Directories(path)[i])

HasLprojSegment(path) ==
    \E i \in 1..Len(Directories(path)) :
        LET seg == Directories(path)[i]
        IN  Len(seg) >= 6 /\ SubSeq(seg, Len(seg) - 5, Len(seg)) = ".lproj"

Found == FindFiles(files, settings["xml_name"])

KeysOfFiles(paths) ==
    UNION {{FileEntries(paths[i])[e][1] : e \in 1..Len(FileEntries(paths[i]))}
           : i \in 1..Len(paths)}

\* C8 (as claimed): once a loader has run over the discovered files, the run
\* has not been ended by a file whose path lacks the values / .lproj segment:
\* the store holds the keys of every file that has the segment and no key
\* that only a file without it holds.
C8_UnmatchedFileIsSkipped ==
    (\E i \in 1..Len(ran) : ran[i] \in Loaders) =>
        LET android == ran[1] = "AndroidStringsLoader"
            matching == SelectSeq(Found, LAMBDA p : IF android THEN HasValuesSegment(p)
                                                    ELSE HasLprojSegment(p))
        IN  /\ raised = ""
            /\ pc # "crashed"
            /\ {dictionary.dictionary[i].key : i \in 1..Len(dictionary.dictionary)}
                  = KeysOfFiles(matching)

\* the language the values segment of a path names: xx for values-xx and
\* values-xx-rYY, the default language for values
SegmentLanguage(path, default_language) ==
    LET dirs == Directories(path)
        seg == dirs[CHOOSE i \in 1..Len(dirs) : IsValuesSegment(dirs[i])]
    IN  IF seg = "values" THEN default_language ELSE SubSeq(seg, 8, 9)

\* C9 (as claimed): the Android loader files the entries of every discovered
\* path that has a values segment under the language that segment names.
C9_AndroidLanguageOfSegment ==
    (InSeq("AndroidStringsLoader", ran) /\ raised = "") =>
        dictionary.languages =
            {SegmentLanguage(Found[i], settings["default_language"]) : i \in 1..Len(Found)}

-----------------------------------------------------------------------------
(* Claims about reading the sheet and the writers *)

BlankKey(s, row) == Len(Strip(CellValue(s, row, 1))) = 0

\* the first row of the first pair of consecutive blank-key rows
EndRow(s) ==
    CHOOSE row \in 2..(LastRow(s) + 1) :
        /\ BlankKey(s, row) /\ BlankKey(s, row + 1)
        /\ \A r \in 2..(row - 1) : ~(BlankKey(s, r) /\ BlankKey(s, r + 1))

SheetRow(s, row, n) == [column \in 1..(n + 1) |-> CellValue(s, row, column)]

RECURSIVE KeyedRows(_, _, _, _)
KeyedRows(s, row, last, n) ==
    IF row > last THEN <<>>
    ELSE (IF BlankKey(s, row) THEN <<>> ELSE <<SheetRow(s, row, n)>>)
         \o KeyedRows(s, row + 1, last, n)

StringsRead == pc \in {"strings", "android", "exported"}

RECURSIVE RowsWithKey(_)
RowsWithKey(rows) ==
    IF rows = <<>> THEN <<>>
    ELSE (IF Len(Head(rows)) > 0 /\ Head(rows)[1] # "" THEN <<Head(rows)>> ELSE <<>>)
         \o RowsWithKey(Tail(rows))

RECURSIVE Lines(_, _)
Lines(rows, i) ==
    IF rows = <<>> THEN ""
    ELSE "\"" \o Head(rows)[1] \o "\" = \"" \o Head(rows)[i + 1] \o "\";\n"
         \o Lines(Tail(rows), i)

AndroidSaved ==
    IF InSeq("export_android", ran) THEN SubSeq(saved, 1, Len(languages)) ELSE <<>>

IOSSaved ==
    IF InSeq("export_ios", ran)
    THEN SubSeq(saved, Len(AndroidSaved) + 1, Len(AndroidSaved) + Len(languages))
    ELSE <<>>

-----------------------------------------------------------------------------
(* Claims about the round trip through the sheet *)

StoreTriples(d) ==
    UNION {{<<d.dictionary[i].key, l, d.dictionary[i].translations[l]>> :
               l \in DOMAIN d.dictionary[i].translations}
           : i \in 1..Len(d.dictionary)}

GridTriples(langs, rows) ==
    UNION {{<<rows[r][1], langs[i], rows[r][i + 1]>> : i \in 1..Len(langs)}
           : r \in {q \in 1..Len(rows) : Len(rows[q]) > 0}}

\* C6 (as claimed): for a store with at least one language and no key that is
\* the empty string, the triples read back from the written grid are the
\* triples of the store.
C6_RoundTrip ==
    (/\ pc = "read"
     /\ dictionary.languages # {}
     /\ \A i \in 1..Len(dictionary.dictionary) : dictionary.dictionary[i].key # "")
    => GridTriples(languages, strings) = StoreTriples(dictionary)

\* every key has a text (not None) for every language of the store
Complete(d) ==
    \A i \in 1..Len(d.dictionary) :
        /\ DOMAIN d.dictionary[i].translations = d.languages
        /\ \A l \in d.languages : d.dictionary[i].translations[l] # None

NoBlankNames(d) ==
    /\ \A i \in 1..Len(d.dictionary) : Len(Strip(d.dictionary[i].key)) > 0
    /\ \A l \in d.languages : Len(Strip(l)) > 0

\* C6 (amended): for a store with at least one language, whose keys and
\* language codes are not blank (empty or white space only) and in which
\* every key has a text for every language, the triples read back from the
\* written grid are the triples of the store.
C6_RoundTripOfCompleteStore ==
    (/\ pc = "read"
     /\ dictionary.languages # {}
     /\ NoBlankNames(dictionary)
     /\ Complete(dictionary))
    => GridTriples(languages, strings) = StoreTriples(dictionary)

C6_Witness ==
    /\ pc = "read"
    /\ dictionary.languages = {"en", "fr"}
    /\ DictKeys(dictionary) = <<"b", "a">>
    /\ Complete(dictionary)
    /\ <<"a", "fr", "">> \in StoreTriples(dictionary)
    /\ Cardinality(StoreTriples(dictionary)) = 4
    /\ GridTriples(languages, strings) = StoreTriples(dictionary)

\* the update_cell calls made for a row of the sheet
CallsOfRow(row) == SelectSeq(updates, LAMBDA c : c.row = row)

\* C7 (as claimed): every data row written from the store has 1 + N cells in
\* the column order of the sorted language header, with the empty string for
\* a translation the store lacks and no None cell; every row read from the
\* sheet for the writers has 1 + N cells.
C7_RowsAreFullAndAligned ==
    /\ pc \in {"written", "read"} =>
          LET langs == Sorted(dictionary.languages)
          IN  \A k \in 1..Len(dictionary.dictionary) :
                 LET row == dictionary.dictionary[k]
                     calls == CallsOfRow(k + 1)
                 IN  /\ Len(calls) = 1 + Len(langs)
                     /\ calls[1] = UpdateCall(k + 1, 1, row.key)
                     /\ \A i \in 1..Len(langs) :
                           /\ calls[i + 1].col = i + 1
                           /\ calls[i + 1].value # None
                           /\ calls[i + 1].value =
                                 IF langs[i] \in DOMAIN row.translations
                                 THEN row.translations[langs[i]] ELSE ""
    /\ pc = "read" =>
          \A r \in 1..Len(strings) : Len(strings[r]) = 1 + Len(languages)

====
